---- MODULE Spec2Model ----
(***************************************************************************)
(* Path simulators of src/process.py: GeometricBrownianMotion.simulate and *)
(* HestonProcess.simulate, together with the process-wide numpy generator  *)
(* they draw from.                                                         *)
(*                                                                         *)
(* Numbers.  A float is modelled as a fixed-point integer: the value a     *)
(* stands for a / SCALE.  Every arithmetic operation rounds (toward zero), *)
(* as every float64 operation rounds, and is applied in the order the      *)
(* source applies it.  NaN is a distinguished value that every operation   *)
(* propagates and that compares false with everything (v > 0 is false).    *)
(* Overflow to infinity is outside the model.                              *)
(*                                                                         *)
(* Arrays.  A numpy array of shape (r, n) is a function                    *)
(* [0..r-1 -> [0..n-1 -> value]], so indices are the source's indices.     *)
(*                                                                         *)
(* Generator.  numpy's global generator is a state in 0..RngMod-1;         *)
(* np.random.seed(k) sets it from k, one normal draw advances it by one    *)
(* step and returns a value read off the new state.                        *)
(***************************************************************************)
EXTENDS Integers, Sequences, FiniteSets, TLC

\* ------------------------------------------------------------- bounds
MaxM == 2          \* m, the number of discretization steps, ranges over 1..MaxM
MaxN == 2          \* n, the number of paths, ranges over 1..MaxN
RngMod == 8        \* number of generator states
SCALE == 8         \* fixed-point denominator

\* ------------------------------------------------------------- numbers
NaN == 1000000007
NoSeed == -1       \* seed=None

ONE == SCALE
HALF == SCALE \div 2
QUARTER == SCALE \div 4

AbsI(a) == IF a < 0 THEN -a ELSE a

\* integer quotient rounded toward zero (sign-symmetric, as float rounding is)
Quot(a, b) ==
    IF (a < 0) = (b < 0) THEN AbsI(a) \div AbsI(b) ELSE -(AbsI(a) \div AbsI(b))

Add(a, b) == IF a = NaN \/ b = NaN THEN NaN ELSE a + b
Sub(a, b) == IF a = NaN \/ b = NaN THEN NaN ELSE a - b
Neg(a) == IF a = NaN THEN NaN ELSE -a
Mul(a, b) == IF a = NaN \/ b = NaN THEN NaN ELSE Quot(a * b, SCALE)
\* k is a Python int (signe, the 4 of eta**2/4, m of T/m)
IMul(k, a) == IF a = NaN THEN NaN ELSE k * a
IDiv(a, k) == IF a = NaN THEN NaN ELSE Quot(a, k)
\* the comparison v > 0, false on NaN
Gt0(a) == a # NaN /\ a > 0
\* a >= 0 as a float comparison, false on NaN
Ge0(a) == a # NaN /\ a >= 0

RECURSIVE ISqrtFrom(_, _)
ISqrtFrom(r, a) == IF (r + 1) * (r + 1) > a THEN r ELSE ISqrtFrom(r + 1, a)

\* np.sqrt: NaN on a negative argument
Sqrt(a) == IF a = NaN \/ a < 0 THEN NaN ELSE ISqrtFrom(0, a * SCALE)

ExpPos(a) ==
    ONE + a + Quot(Quot(a * a, SCALE), 2) + Quot(Quot(Quot(a * a, SCALE) * a, SCALE), 6)

\* np.exp: positive, with exp(0) = 1
Exp(a) ==
    IF a = NaN THEN NaN
    ELSE IF a >= 0 THEN ExpPos(a)
    ELSE Quot(ONE * ONE, ExpPos(-a))

\* ------------------------------------------------------------- generator
RngStep(g) == (5 * g + 3) % RngMod

RECURSIVE RngAdvance(_, _)
RngAdvance(g, k) == IF k = 0 THEN g ELSE RngAdvance(RngStep(g), k - 1)

\* np.random.seed(seed)
RngSeed(seed) == (3 * seed + 1) % RngMod

NormalTable == <<0, 2, -2, 4, -3, 1, -1, 3>>

\* the standard-normal value drawn when the generator reaches state g
NormalOf(g) == NormalTable[(g % 8) + 1] * HALF

\* the values a standard normal draw can take
DrawVals == {NormalTable[k] * HALF : k \in 1..8}

\* `if seed: np.random.seed(seed)`: the generator a call draws from
SeededRng(g, seed) == IF seed # NoSeed /\ seed # 0 THEN RngSeed(seed) ELSE g

\* np.random.randn(rows, cols) from generator state g, filled in row-major order
\* variant: one row short
RandnShort(g, rows, cols) ==
    [r \in 0..(rows - 2) |-> [c \in 0..(cols - 1) |->
        NormalOf(RngAdvance(g, r * cols + c + 1))]]

Randn(g, rows, cols) ==
    [r \in 0..(rows - 1) |-> [c \in 0..(cols - 1) |->
        NormalOf(RngAdvance(g, r * cols + c + 1))]]

\* ------------------------------------------------------------- arrays
\* a is an (r, n) array: rows 0..r-1, each with columns 0..n-1
HasShape(A, r, n) ==
    /\ DOMAIN A = 0..(r - 1)
    /\ \A k \in DOMAIN A : DOMAIN A[k] = 0..(n - 1)

Empty == <<>>

\* np.zeros((rows, n))
Zeros(rows, n) == [r \in 0..(rows - 1) |-> [c \in 0..(n - 1) |-> 0]]

\* A[k] = val (a scalar broadcast over the row)
SetRow(A, k, val) == [A EXCEPT ![k] = [c \in DOMAIN A[k] |-> val]]

\* np.cumsum(A, axis=0)
RECURSIVE CumsumAt(_, _, _)
CumsumAt(A, r, c) == IF r = 0 THEN A[0][c] ELSE Add(CumsumAt(A, r - 1, c), A[r][c])

Cumsum(A) == [r \in DOMAIN A |-> [c \in DOMAIN A[r] |-> CumsumAt(A, r, c)]]

\* np.linspace(0, T, m + 1): step T/m, last point exactly T
Linspace(T, m) ==
    [k \in 0..m |-> IF k = m THEN T ELSE IMul(k, IDiv(T, m))]

\* ------------------------------------------------------------- GBM
Signe(antithetic) == IF antithetic THEN -1 ELSE 1

\* line 42: signe * cumsum(sqrt(dt) * Z), before row 0 is forced
GBMCumPath(Z, dt, antithetic) ==
    LET inc == [r \in DOMAIN Z |-> [c \in DOMAIN Z[r] |-> Mul(Sqrt(dt), Z[r][c])]]
        cum == Cumsum(inc)
    IN  [r \in DOMAIN Z |-> [c \in DOMAIN Z[r] |-> IMul(Signe(antithetic), cum[r][c])]]

\* variant: row 0 left as the cumulative sum gives it
GBMPathUnforced(Z, dt, antithetic) == GBMCumPath(Z, dt, antithetic)

\* lines 42-43: the Brownian path W, with W[0] = 0
GBMPath(Z, dt, antithetic) == SetRow(GBMCumPath(Z, dt, antithetic), 0, 0)

\* lines 45-47: s = s0 * exp((mu - 0.5 sigma^2) * T + sigma * W)
GBMPrice(mu, sigma, s0, T, m, W) ==
    LET lin == Linspace(T, m)
        drift == Sub(mu, Mul(HALF, Mul(sigma, sigma)))
    IN  [r \in DOMAIN W |-> [c \in DOMAIN W[r] |->
            Mul(s0, Exp(Add(Mul(drift, Mul(ONE, lin[r])), Mul(sigma, W[r][c]))))]]

\* ------------------------------------------------------------- Heston
\* line 82: z2 = rho * z1 + sqrt(1 - rho^2) * e
Correlate(rho, Z1, E) ==
    [r \in DOMAIN Z1 |-> [c \in DOMAIN Z1[r] |->
        Add(Mul(rho, Z1[r][c]), Mul(Sqrt(Sub(ONE, Mul(rho, rho))), E[r][c]))]]

\* line 85: z * signe
SignGrid(Z, antithetic) ==
    [r \in DOMAIN Z |-> [c \in DOMAIN Z[r] |-> IMul(Signe(antithetic), Z[r][c])]]

\* lines 87-92: np.zeros((m + 1, n)) with row 0 set to val
\* variant: row 0 left at zero
InitGridUnset(m, n, val) == Zeros(m + 1, n)

InitGrid(m, n, val) == SetRow(Zeros(m + 1, n), 0, val)

\* line 100: eta^2 / 4 * (z1^2 - 1) * dt if milstein else 0
\* variant: the term without its dt factor
MilsteinTermNoDt(eta, z, dt, milstein) ==
    IF milstein THEN Mul(IDiv(Mul(eta, eta), 4), Sub(Mul(z, z), ONE)) ELSE 0

MilsteinTerm(eta, z, dt, milstein) ==
    IF milstein THEN Mul(Mul(IDiv(Mul(eta, eta), 4), Sub(Mul(z, z), ONE)), dt) ELSE 0

\* lines 96-101: the new variance of one path, before reflection
VNew(h, vi, z, dt) ==
    Add(Add(Add(vi,
                Mul(Mul(h.kappa, Sub(h.theta, vi)), dt)),
            Mul(Mul(h.eta, Sqrt(Mul(vi, dt))), z)),
        MilsteinTerm(h.eta, z, dt, h.milstein))

\* line 102: np.where(v > 0, v, -v), one entry
\* variants: no reflection; truncation at zero
ReflectClamp(a) == IF Gt0(a) THEN a ELSE a

ReflectZero(a) == IF Gt0(a) THEN a ELSE 0

Reflect(a) == IF Gt0(a) THEN a ELSE Neg(a)

\* line 102: np.where(v > 0, v, -v), the whole array
ReflectAll(A) == [r \in DOMAIN A |-> [c \in DOMAIN A[r] |-> Reflect(A[r][c])]]

\* line 104: the new log-price of one path
XNew(h, xi, vi, z, dt) ==
    Add(Add(xi, Mul(Sub(h.mu, IDiv(vi, 2)), dt)), Mul(Sqrt(Mul(vi, dt)), z))

\* line 106: s[1:] = s[0] * exp(x[1:])
PriceFromLog(S, X) ==
    [r \in DOMAIN S |-> IF r = 0 THEN S[0]
                        ELSE [c \in DOMAIN S[r] |-> Mul(S[0][c], Exp(X[r][c]))]]

\* dt = T / m for the Python int T
Dt(T, m) == Quot(T * SCALE, m)

\* ------------------------------------------------------------- inputs
S0Vals == {-ONE, 3 * HALF}
V0Vals == {-QUARTER, 0, ONE}
TVals == {1, 2}
Seeds == {NoSeed, 0, 1}
\* seed=0 leaves the generator alone as seed=None does (line 36), so single calls
\* from every generator state need only one of the two
CallSeeds == {NoSeed, 1}

GBMProcs ==
    [kind : {"GBM"}, mu : {-QUARTER, QUARTER}, sigma : {HALF, ONE}]

HestonProcs ==
    [kind : {"Heston"}, mu : {QUARTER}, kappa : {ONE, 3 * ONE}, theta : {QUARTER},
     eta : {ONE, 2 * ONE}, rho : {-HALF, ONE}, milstein : BOOLEAN]

GBMRequests ==
    [s0 : S0Vals, v0 : {0}, T : TVals, n : 1..MaxN, m : 1..MaxM,
     return_vol : {FALSE}, antithetic : BOOLEAN, seed : CallSeeds]

HestonRequests ==
    [s0 : S0Vals, v0 : V0Vals, T : TVals, n : 1..MaxN, m : 1..MaxM,
     return_vol : BOOLEAN, antithetic : BOOLEAN, seed : CallSeeds]

\* alternative values for the row-0 draws of a GBM call
AltVals == {-ONE, 0, ONE}

\* ------------------------------------------------------------- state
VARIABLES
    proc,      \* the process object (its dataclass fields)
    rng,       \* state of numpy's global generator
    pc,        \* "idle" between calls, "loop" inside HestonProcess.simulate
    req,       \* arguments of the current (or last) simulate call
    W,         \* GBM: the Brownian path
    z1, z2,    \* Heston: the noise grids
    s, x, v,   \* the price, log-price and variance arrays
    i,         \* Heston: the loop index
    ret,       \* the value returned by the last call: <<s>> or <<s, v>>
    preV,      \* Heston: row i+1 of v as assigned at lines 96-101, before line 102
    sAlt,      \* GBM run on the same draws except row 0 of the draw grid
    vR, xR, sR,\* Heston run that reflects only the new row v[i+1]
    prev,      \* request and result of the call before the last
    hseeded,   \* some call so far was given a seed
    hexp       \* generator state predicted from the last given seed and the draws since

locals == <<W, z1, z2, s, x, v, i, preV, sAlt, vR, xR, sR>>
hist == <<prev, hseeded, hexp>>
vars == <<proc, rng, pc, req, ret, locals, hist>>

NoReq ==
    [s0 |-> 0, v0 |-> 0, T |-> 0, n |-> 0, m |-> 0,
     return_vol |-> FALSE, antithetic |-> FALSE, seed |-> NoSeed]

NoCall == [req |-> NoReq, W |-> Empty, ret |-> Empty]

InitCommon ==
    /\ rng \in 0..(RngMod - 1)
    /\ pc = "idle"
    /\ req = NoReq
    /\ W = Empty /\ z1 = Empty /\ z2 = Empty
    /\ s = Empty /\ x = Empty /\ v = Empty
    /\ i = 0
    /\ ret = Empty
    /\ preV = Empty /\ sAlt = Empty
    /\ vR = Empty /\ xR = Empty /\ sR = Empty
    /\ prev = NoCall
    /\ hseeded = FALSE
    /\ hexp = 0

Init ==
    /\ proc \in GBMProcs \cup HestonProcs
    /\ InitCommon

\* ------------------------------------------------------------- operations
\* number of normal draws a call consumes
DrawCount(kind, r) == IF kind = "GBM" THEN (r.m + 1) * r.n ELSE 2 * r.m * r.n

\* GeometricBrownianMotion.simulate, lines 36-49
GBMSimulate(r) ==
    /\ pc = "idle"
    /\ proc.kind = "GBM"
    /\ LET g0 == SeededRng(rng, r.seed)
           Z == Randn(g0, r.m + 1, r.n)
           dt == Dt(r.T, r.m)
           path == GBMPath(Z, dt, r.antithetic)
           price == GBMPrice(proc.mu, proc.sigma, r.s0, r.T * ONE, r.m, path)
       IN  /\ rng' = RngAdvance(g0, (r.m + 1) * r.n)
           /\ W' = path
           /\ s' = price
           /\ ret' = <<price>>
           /\ \E alt \in [0..(r.n - 1) -> AltVals] :
                sAlt' = GBMPrice(proc.mu, proc.sigma, r.s0, r.T * ONE, r.m,
                                 GBMPath([Z EXCEPT ![0] = alt], dt, r.antithetic))
    /\ req' = r
    /\ z1' = Empty /\ z2' = Empty /\ x' = Empty /\ v' = Empty
    /\ i' = 0 /\ preV' = Empty
    /\ vR' = Empty /\ xR' = Empty /\ sR' = Empty
    /\ UNCHANGED <<proc, pc>>

\* HestonProcess.simulate, lines 77-92: seed, draw, allocate
HestonBegin(r) ==
    /\ pc = "idle"
    /\ proc.kind = "Heston"
    /\ LET g0 == SeededRng(rng, r.seed)
           Z1 == Randn(g0, r.m, r.n)
           E == Randn(RngAdvance(g0, r.m * r.n), r.m, r.n)
           Z2 == Correlate(proc.rho, Z1, E)
       IN  /\ rng' = RngAdvance(g0, 2 * r.m * r.n)
           /\ z1' = SignGrid(Z1, r.antithetic)
           /\ z2' = SignGrid(Z2, r.antithetic)
    /\ s' = InitGrid(r.m, r.n, r.s0)
    /\ x' = Zeros(r.m + 1, r.n)
    /\ v' = InitGrid(r.m, r.n, r.v0)
    /\ sR' = InitGrid(r.m, r.n, r.s0)
    /\ xR' = Zeros(r.m + 1, r.n)
    /\ vR' = InitGrid(r.m, r.n, r.v0)
    /\ i' = 0
    /\ pc' = "loop"
    /\ req' = r
    /\ W' = Empty /\ sAlt' = Empty /\ preV' = Empty
    /\ ret' = Empty
    /\ UNCHANGED proc

\* one iteration of the loop, lines 94-106
HestonStep ==
    /\ pc = "loop"
    /\ i < req.m
    /\ LET dt == Dt(req.T, req.m)
           cols == 0..(req.n - 1)
           vrow == [c \in cols |-> VNew(proc, v[i][c], z1[i][c], dt)]
           v1 == ReflectAll([v EXCEPT ![i + 1] = vrow])
           x1 == [x EXCEPT ![i + 1] =
                    [c \in cols |-> XNew(proc, x[i][c], v1[i][c], z2[i][c], dt)]]
           vRrow == [c \in cols |-> VNew(proc, vR[i][c], z1[i][c], dt)]
           vR1 == [vR EXCEPT ![i + 1] =
                     [c \in cols |-> IF Gt0(vRrow[c]) THEN vRrow[c] ELSE Neg(vRrow[c])]]
           xR1 == [xR EXCEPT ![i + 1] =
                     [c \in cols |-> XNew(proc, xR[i][c], vR1[i][c], z2[i][c], dt)]]
       IN  /\ preV' = vrow
           /\ v' = v1
           /\ x' = x1
           /\ s' = PriceFromLog(s, x1)
           /\ vR' = vR1
           /\ xR' = xR1
           /\ sR' = PriceFromLog(sR, xR1)
    /\ i' = i + 1
    /\ UNCHANGED <<proc, rng, pc, req, ret, W, z1, z2, sAlt>>

\* line 108: return s if not return_vol else (s, v)
HestonReturn ==
    /\ pc = "loop"
    /\ i = req.m
    /\ ret' = IF req.return_vol THEN <<s, v>> ELSE <<s>>
    /\ pc' = "idle"
    /\ UNCHANGED <<proc, rng, req, locals>>

\* The caller drops the finished call's result; the frame of the call is gone.
\* Only proc and rng are carried from one call to the next.
Discard ==
    /\ pc = "idle"
    /\ req # NoReq
    /\ req' = NoReq
    /\ ret' = Empty
    /\ W' = Empty /\ z1' = Empty /\ z2' = Empty
    /\ s' = Empty /\ x' = Empty /\ v' = Empty
    /\ i' = 0 /\ preV' = Empty /\ sAlt' = Empty
    /\ vR' = Empty /\ xR' = Empty /\ sR' = Empty
    /\ UNCHANGED <<proc, rng, pc>>

\* req, ret and the arrays record one call at a time: a call starts from the
\* cleared record
Fresh == req = NoReq

GBMCall == \E r \in GBMRequests : Fresh /\ GBMSimulate(r) /\ UNCHANGED hist

HestonCall == \E r \in HestonRequests : Fresh /\ HestonBegin(r) /\ UNCHANGED hist

HestonLoop == HestonStep /\ UNCHANGED hist

HestonDone == HestonReturn /\ UNCHANGED hist

Forget == Discard /\ UNCHANGED hist

Next == GBMCall \/ HestonCall \/ HestonLoop \/ HestonDone \/ Forget

Spec == Init /\ [][Next]_vars

\* ------------------------------------------------------------- call sequences
\* A second specification: long sequences of calls on one generator, over a small
\* set of requests, remembering the call before the last (prev) and the generator
\* state that the last given seed and the draws since then predict (hexp).
SeqGBM == [kind |-> "GBM", mu |-> QUARTER, sigma |-> ONE]

SeqHeston ==
    [kind |-> "Heston", mu |-> QUARTER, kappa |-> ONE, theta |-> QUARTER,
     eta |-> HALF, rho |-> -HALF, milstein |-> TRUE]

SeqRequests ==
    [s0 : {ONE}, v0 : {ONE}, T : {1}, n : 1..MaxN, m : 1..MaxM,
     return_vol : {TRUE}, antithetic : BOOLEAN, seed : Seeds]

InitSeq ==
    /\ proc \in {SeqGBM, SeqHeston}
    /\ InitCommon

\* a call with request r draws: what the given seeds and draw counts predict
Track(r) ==
    /\ hseeded' = (hseeded \/ r.seed # NoSeed)
    /\ hexp' = IF r.seed # NoSeed
               THEN RngAdvance(RngSeed(r.seed), DrawCount(proc.kind, r))
               ELSE RngAdvance(hexp, DrawCount(proc.kind, r))

SeqGBMCall ==
    \E r \in SeqRequests : Fresh /\ GBMSimulate(r) /\ Track(r) /\ UNCHANGED prev

SeqHestonCall ==
    \E r \in SeqRequests : Fresh /\ HestonBegin(r) /\ Track(r) /\ UNCHANGED prev

SeqHestonLoop == HestonStep /\ UNCHANGED hist

SeqHestonDone == HestonReturn /\ UNCHANGED hist

SeqForget ==
    /\ Discard
    /\ prev' = [req |-> req, W |-> W, ret |-> ret]
    /\ UNCHANGED <<hseeded, hexp>>

NextSeq ==
    SeqGBMCall \/ SeqHestonCall \/ SeqHestonLoop \/ SeqHestonDone \/ SeqForget

SpecSeq == InitSeq /\ [][NextSeq]_vars

\* ------------------------------------------------------------- properties
IsGBM == proc.kind = "GBM" /\ req # NoReq
IsHeston == proc.kind = "Heston" /\ req # NoReq
Returned == pc = "idle" /\ req # NoReq
ColsOf(r) == 0..(r.n - 1)
RowsOf(r) == 0..r.m

AllGe0(A) == \A r \in DOMAIN A : \A c \in DOMAIN A[r] : Ge0(A[r][c])

\* C1: a call that was given a seed (0 included) returns what the previous call
\* returned, whenever the previous call had the same seed and the same arguments,
\* whatever the generator state before either call.
C1_Determinism ==
    (Returned /\ req.seed # NoSeed /\ prev.req = req) => ret = prev.ret

\* C2: the price grid returned by HestonProcess.simulate has row 0 equal to s0, and
\* the variance grid returned with return_vol=True has row 0 equal to v0, for every
\* s0 and v0 whatever their sign.
C2_RowZeroAnySign ==
    (IsHeston /\ Returned) =>
        /\ \A c \in ColsOf(req) : ret[1][0][c] = req.s0
        /\ req.return_vol => \A c \in ColsOf(req) : ret[2][0][c] = req.v0

\* C2 as amended: the returned price grid has row 0 equal to s0 for every s0; the
\* returned variance grid has row 0 equal to v0 when v0 >= 0 and to -v0 when v0 < 0.
C2_RowZero ==
    (IsHeston /\ Returned) =>
        /\ \A c \in ColsOf(req) : ret[1][0][c] = req.s0
        /\ req.return_vol =>
             \A c \in ColsOf(req) :
                ret[2][0][c] = IF req.v0 >= 0 THEN req.v0 ELSE -req.v0

C2_Witness ==
    /\ IsHeston /\ Returned /\ req.return_vol
    /\ req.v0 > 0 /\ req.m = MaxM /\ req.n = MaxN
    /\ ret[2][1][0] # req.v0

\* C3: after each iteration of the Heston loop, and in the returned grid, every
\* entry of the variance array is non-negative, for any parameters and any v0.
C3_NonNegativeAnyV0 ==
    /\ (IsHeston /\ i >= 1) => AllGe0(v)
    /\ (IsHeston /\ Returned /\ req.return_vol) => AllGe0(ret[2])

\* C3 as amended: the same, for v0 >= 0 (and a time horizon T >= 0).
C3_NonNegative ==
    (req.v0 >= 0 /\ req.T >= 0) =>
        /\ (IsHeston /\ i >= 1) => AllGe0(v)
        /\ (IsHeston /\ Returned /\ req.return_vol) => AllGe0(ret[2])

\* a negative value was computed at lines 96-101 and reflected
C3_Witness ==
    /\ IsHeston /\ Returned /\ req.return_vol /\ req.v0 >= 0 /\ req.m = MaxM
    /\ \E c \in ColsOf(req) : preV[c] # NaN /\ preV[c] < 0

\* C4: row 0 of the matrix returned by GeometricBrownianMotion.simulate equals s0
\* for every path.
C4_GBMRowZero ==
    IsGBM => \A c \in ColsOf(req) : ret[1][0][c] = req.s0

C4_Witness ==
    /\ IsGBM /\ req.antithetic /\ req.m = MaxM /\ req.n = MaxN
    /\ \A c \in ColsOf(req) : ret[1][1][c] # req.s0

\* C5: two GBM calls with the same seed and the same s0, T, n, m, one antithetic and
\* one not, use Brownian paths that are the exact negation of each other.
C5_Antithetic ==
    (/\ IsGBM /\ prev.req # NoReq
     /\ req.seed # NoSeed
     /\ [req EXCEPT !.antithetic = FALSE] = [prev.req EXCEPT !.antithetic = FALSE]
     /\ req.antithetic # prev.req.antithetic)
    => \A r \in RowsOf(req) : \A c \in ColsOf(req) : W[r][c] = Neg(prev.W[r][c])

\* C6: every returned matrix has exactly m+1 rows and n columns; the Heston noise
\* grids z1 and z2 have exactly m rows (and n columns).
C6_Shape ==
    /\ IsGBM => HasShape(ret[1], req.m + 1, req.n)
    /\ IsHeston =>
        /\ HasShape(z1, req.m, req.n)
        /\ HasShape(z2, req.m, req.n)
        /\ Returned =>
            /\ HasShape(ret[1], req.m + 1, req.n)
            /\ req.return_vol => HasShape(ret[2], req.m + 1, req.n)

C6_Witness ==
    /\ IsHeston /\ Returned /\ req.return_vol
    /\ req.m = MaxM /\ req.n = MaxN
    /\ Len(ret) = 2

\* C7: in every iteration the value assigned to v[i+1] before reflection is the
\* Euler value computed from v[i], plus eta^2/4 * (z1[i]^2 - 1) * dt exactly when
\* milstein is set; the reflection of that value, the log-price recursion and the
\* draws consumed by the call are the same under both settings.
C7_Step ==
    LET dt == Dt(req.T, req.m)
    IN  \A c \in ColsOf(req) :
          LET euler ==
                Add(Add(v[i][c], Mul(Mul(proc.kappa, Sub(proc.theta, v[i][c])), dt)),
                    Mul(Mul(proc.eta, Sqrt(Mul(v[i][c], dt))), z1[i][c]))
              term ==
                Mul(Mul(IDiv(Mul(proc.eta, proc.eta), 4),
                        Sub(Mul(z1[i][c], z1[i][c]), ONE)), dt)
          IN  /\ preV'[c] = IF proc.milstein THEN Add(euler, term) ELSE euler
              /\ v'[i + 1][c] = IF Gt0(preV'[c]) THEN preV'[c] ELSE Neg(preV'[c])
              /\ x'[i + 1][c] =
                    Add(Add(x[i][c], Mul(Sub(proc.mu, IDiv(v'[i][c], 2)), dt)),
                        Mul(Sqrt(Mul(v'[i][c], dt)), z2[i][c]))

C7_Milstein ==
    [][/\ (pc = "loop" /\ i' = i + 1) => (C7_Step /\ UNCHANGED <<rng, z1, z2>>)
       /\ (pc = "idle" /\ pc' = "loop") =>
            rng' = RngAdvance(SeededRng(rng, req'.seed), 2 * req'.m * req'.n)]_vars

\* an iteration ran with milstein set and a non-zero correction term
C7_Witness ==
    /\ IsHeston /\ proc.milstein /\ i >= 1
    /\ \E c \in ColsOf(req) :
         Mul(Mul(IDiv(Mul(proc.eta, proc.eta), 4),
                 Sub(Mul(z1[i - 1][c], z1[i - 1][c]), ONE)), Dt(req.T, req.m)) # 0

\* C8: a GBM run whose draws differ from this one's only in row 0 of the draw grid
\* returns the same matrix.
C8_RowZeroDraws ==
    IsGBM => sAlt = s

\* C9: a call without a seed only advances the generator by the draws it consumes
\* ((m+1)*n for GBM, 2*m*n for Heston, z1 first); once a seed was given, the
\* generator a call without a seed draws from is the one predicted by the last
\* given seed and the draws since; no call changes the process parameters.
C9_Generator ==
    [][/\ proc' = proc
       /\ (req = NoReq /\ req' # NoReq /\ req'.seed = NoSeed) =>
            rng' = RngAdvance(rng, DrawCount(proc.kind, req'))
       /\ (req = NoReq /\ req' # NoReq /\ proc.kind = "Heston") =>
            z1' = SignGrid(Randn(SeededRng(rng, req'.seed), req'.m, req'.n),
                           req'.antithetic)
       /\ (req = NoReq /\ req' # NoReq /\ req'.seed = NoSeed /\ hseeded) =>
            rng = hexp]_vars

\* C10: with v0 >= 0, reflecting the whole variance array at every iteration gives
\* the same v, x and s, at every step, as reflecting only the new row v[i+1].
C10_ReflectRow ==
    (IsHeston /\ req.v0 >= 0) => (v = vR /\ x = xR /\ s = sR)

C10_Witness ==
    /\ IsHeston /\ req.v0 >= 0 /\ i = req.m /\ req.m = MaxM
    /\ \E c \in ColsOf(req) : preV[c] # NaN /\ preV[c] < 0

====
